---- MODULE Spec2Model ----
(***************************************************************************)
(* Model of eigen_utils::RigidBodyState (src/src/eigen_rigidbody.hpp).     *)
(*                                                                         *)
(* Scalars.  A double is modelled as a reduced-width floating value: an    *)
(* integer number of units of 5e-7 in -MaxVal..MaxVal, the two infinities  *)
(* and NaN.  A sum that leaves the finite range overflows to an infinity,  *)
(* as IEEE arithmetic does at the end of its range; Inf - Inf is NaN.      *)
(*                                                                         *)
(* Quaternions.  Eigen's unit quaternions are modelled exactly as group    *)
(* elements: a reduced word of rotation letters, the letter <<x,y,z>>      *)
(* standing for Eigen::AngleAxisd(|v|, v/|v|) with v in scalar units.      *)
(* Two adjacent letters about the same axis merge (rotations about one     *)
(* axis add), a rotation followed by its inverse cancels, and nothing else *)
(* is identified.  A quaternion with a NaN coefficient is QNaN.            *)
(*                                                                         *)
(* Build.  The assertions of the code (assert, and Eigen's eigen_assert on *)
(* block ranges and operand sizes) are active: a failed assertion aborts.  *)
(***************************************************************************)
EXTENDS Integers, Sequences, FiniteSets

\* ---------------------------------------------------------------- bounds
MaxVal == 3
MaxOps == 2

\* ------------------------------------------------------ program constants
angular_velocity_ind == 0
velocity_ind == 3
chi_ind == 6
position_ind == 9
acceleration_ind == 12
basic_num_states == 15
\* the tolerance .000001 of chiToQuat, in scalar units of 5e-7
Tol == 2

\* ----------------------------------------------------------------- double
PosInf == MaxVal + 1
NegInf == 0 - (MaxVal + 1)
NaN == MaxVal + 2

isnan(x) == x = NaN

IsInf(x) == x = PosInf \/ x = NegInf

IsFinite(x) == ~isnan(x) /\ ~IsInf(x)

FNeg(x) ==
  IF isnan(x) THEN NaN
  ELSE IF x = PosInf THEN NegInf
  ELSE IF x = NegInf THEN PosInf
  ELSE 0 - x

FAdd(x, y) ==
  IF isnan(x) \/ isnan(y) THEN NaN
  ELSE IF IsInf(x) /\ IsInf(y) THEN (IF x = y THEN x ELSE NaN)
  ELSE IF IsInf(x) THEN x
  ELSE IF IsInf(y) THEN y
  ELSE IF x + y > MaxVal THEN PosInf
  ELSE IF x + y < 0 - MaxVal THEN NegInf
  ELSE x + y

FSub(x, y) == FAdd(x, FNeg(y))

\* ------------------------------------------------------- Eigen::VectorXd
Rows(v) == Cardinality(DOMAIN v)

ZeroVec(d) == [i \in 0..(d - 1) |-> 0]

Zero3 == <<0, 0, 0>>

VecAdd(v, w) == [i \in DOMAIN v |-> FAdd(v[i], w[i])]

VecSub(v, w) == [i \in DOMAIN v |-> FSub(v[i], w[i])]

\* vec.block<3,1>(ind, 0): Eigen asserts that the block lies inside the vector
BlockInRange(v, ind) == ind + 3 <= Rows(v)

Block3(v, ind) == <<v[ind], v[ind + 1], v[ind + 2]>>

SetBlock3(v, ind, x) ==
  [i \in DOMAIN v |-> IF i >= ind /\ i < ind + 3 THEN x[i - ind + 1] ELSE v[i]]

\* --------------------------------------------------- Eigen::Quaterniond
QIdentity == [nan |-> FALSE, rot |-> <<>>]

QNaN == [nan |-> TRUE, rot |-> <<>>]

Cross(v, w) ==
  << v[2] * w[3] - v[3] * w[2],
     v[3] * w[1] - v[1] * w[3],
     v[1] * w[2] - v[2] * w[1] >>

SameAxis(v, w) == Cross(v, w) = Zero3

Front(w) == SubSeq(w, 1, Len(w) - 1)

RECURSIVE WordMul(_, _)
WordMul(p, q) ==
  IF p = <<>> THEN q
  ELSE IF q = <<>> THEN p
  ELSE LET a == p[Len(p)]
           c == Head(q)
           m == <<a[1] + c[1], a[2] + c[2], a[3] + c[3]>>
       IN IF SameAxis(a, c)
            THEN IF m = Zero3 THEN WordMul(Front(p), Tail(q))
                 ELSE Front(p) \o <<m>> \o Tail(q)
            ELSE p \o q

QMul(p, q) ==
  IF p.nan \/ q.nan THEN QNaN
  ELSE [nan |-> FALSE, rot |-> WordMul(p.rot, q.rot)]

RECURSIVE WordInverse(_)
WordInverse(w) ==
  IF w = <<>> THEN <<>>
  ELSE WordInverse(Tail(w)) \o << <<0 - w[1][1], 0 - w[1][2], 0 - w[1][3]>> >>

QInverse(q) == IF q.nan THEN QNaN ELSE [nan |-> FALSE, rot |-> WordInverse(q.rot)]

\* Eigen::AngleAxisd(|v|, v / |v|) as a quaternion, v given in scalar units
AngleAxisQuat(v) ==
  IF \E k \in 1..3 : ~IsFinite(v[k]) THEN QNaN
  ELSE IF v = Zero3 THEN QIdentity
  ELSE [nan |-> FALSE, rot |-> <<v>>]

\* ------------------------------------------- math utilities (declared only)
\* Eigen stores the coefficients of a quaternion in the order x, y, z, w
Coeffs(q) == << [c |-> "x", of |-> q], [c |-> "y", of |-> q],
                [c |-> "z", of |-> q], [c |-> "w", of |-> q] >>

\* the quaternion with the coefficient tuple t (order x, y, z, w); the input
\* sets only hold coefficient tuples of modelled rotations
FromCoeffs(t) == IF t = Coeffs(t[1].of) THEN t[1].of ELSE QNaN

\* bot_quat[0..3] = w, x, y, z
quaternionToBotDouble(eig_quat) ==
  LET t == Coeffs(eig_quat) IN <<t[4], t[1], t[2], t[3]>>

botDoubleToQuaternion(bot_quat) ==
  FromCoeffs(<<bot_quat[2], bot_quat[3], bot_quat[4], bot_quat[1]>>)

\* the exponential coordinates of quat2.inverse() * quat1 can be written in
\* the scalar domain when the relative rotation is a single rotation letter
\* with representable components (its angle is then far below pi)
subtractQuatsDefined(quat1, quat2) ==
  LET r == QMul(QInverse(quat2), quat1)
  IN r.nan \/ Len(r.rot) = 0
     \/ (Len(r.rot) = 1 /\ \A k \in 1..3 : r.rot[1][k] \in (0 - MaxVal)..MaxVal)

subtractQuats(quat1, quat2) ==
  LET r == QMul(QInverse(quat2), quat1)
  IN IF r.nan THEN <<NaN, NaN, NaN>>
     ELSE IF Len(r.rot) = 0 THEN Zero3
     ELSE r.rot[1]

\* --------------------------------------------------------- RigidBodyState
RigidBodyStateDim(state_dim) ==
  [vec |-> ZeroVec(state_dim), quat |-> QIdentity, utime |-> 0]

Accessors == {"angularVelocity", "velocity", "chi", "position", "acceleration"}

\* mutant: position() returns the block at chi_ind
AccessorInd_positionAtChi(f) ==
  CASE f = "angularVelocity" -> angular_velocity_ind
    [] f = "velocity" -> velocity_ind
    [] f = "chi" -> chi_ind
    [] f = "position" -> chi_ind
    [] f = "acceleration" -> acceleration_ind

\* the offset of the block the accessor f returns
AccessorInd(f) ==
  CASE f = "angularVelocity" -> angular_velocity_ind
    [] f = "velocity" -> velocity_ind
    [] f = "chi" -> chi_ind
    [] f = "position" -> position_ind
    [] f = "acceleration" -> acceleration_ind

angularVelocity(self) == Block3(self.vec, AccessorInd("angularVelocity"))

velocity(self) == Block3(self.vec, AccessorInd("velocity"))

chi(self) == Block3(self.vec, AccessorInd("chi"))

position(self) == Block3(self.vec, AccessorInd("position"))

acceleration(self) == Block3(self.vec, AccessorInd("acceleration"))

orientation(self) == self.quat

\* s.f() = x: writing through the mutable view returned by the accessor f
WriteBlock(self, f, x) ==
  [self EXCEPT !.vec = SetBlock3(self.vec, AccessorInd(f), x)]

\* s.f() read back
ReadBlock(self, f) == Block3(self.vec, AccessorInd(f))

\* chi().norm() > .000001, on the squares; a NaN norm compares false
ChiNormAboveTol(c) ==
  /\ \A k \in 1..3 : ~isnan(c[k])
  /\ \/ \E k \in 1..3 : IsInf(c[k])
     \/ c[1] * c[1] + c[2] * c[2] + c[3] * c[3] > Tol * Tol

\* mutant: the fold leaves chi in place
chiToQuat_keepChi(self) ==
  IF ChiNormAboveTol(chi(self))
    THEN [self EXCEPT !.quat = QMul(self.quat, AngleAxisQuat(chi(self)))]
    ELSE self

\* mutant: the tolerance check is >= instead of >
chiToQuat_foldAtTol(self) ==
  LET c == chi(self)
  IN IF ChiNormAboveTol(c)
        \/ ((\A k \in 1..3 : IsFinite(c[k]))
            /\ c[1] * c[1] + c[2] * c[2] + c[3] * c[3] = Tol * Tol)
       THEN [self EXCEPT !.quat = QMul(self.quat, AngleAxisQuat(c)),
                         !.vec = SetBlock3(self.vec, chi_ind, Zero3)]
       ELSE self

chiToQuat(self) ==
  IF ChiNormAboveTol(chi(self))
    THEN [self EXCEPT !.quat = QMul(self.quat, AngleAxisQuat(chi(self))),
                      !.vec = SetBlock3(self.vec, chi_ind, Zero3)]
    ELSE self

\* mutant: the orientation is not reset
quatToChi_keepQuat(self) ==
  [self EXCEPT !.vec = SetBlock3(self.vec, chi_ind,
                                 subtractQuats(self.quat, QIdentity))]

quatToChi(self) ==
  [self EXCEPT !.vec = SetBlock3(self.vec, chi_ind,
                                 subtractQuats(self.quat, QIdentity)),
               !.quat = QIdentity]

\* mutant: the orientation is multiplied before the summed chi is folded
addState_multiplyBeforeFold(self, state_to_add) ==
  LET s1 == [self EXCEPT !.vec = VecAdd(self.vec, state_to_add.vec),
                         !.quat = QMul(self.quat, state_to_add.quat)]
  IN chiToQuat(s1)

addState(self, state_to_add) ==
  LET s1 == [self EXCEPT !.vec = VecAdd(self.vec, state_to_add.vec)]
      s2 == chiToQuat(s1)
  IN [s2 EXCEPT !.quat = QMul(s2.quat, state_to_add.quat)]

\* mutant: the inverse is multiplied on the right
subtractState_postmultiply(self, state_to_subtract) ==
  [self EXCEPT !.vec = VecSub(self.vec, state_to_subtract.vec),
               !.quat = QMul(self.quat, QInverse(state_to_subtract.quat))]

\* mutant: the difference of the chis is folded as addState folds their sum
subtractState_fold(self, state_to_subtract) ==
  LET s1 == chiToQuat([self EXCEPT !.vec = VecSub(self.vec, state_to_subtract.vec)])
  IN [s1 EXCEPT !.quat = QMul(QInverse(state_to_subtract.quat), s1.quat)]

subtractState(self, state_to_subtract) ==
  [self EXCEPT !.vec = VecSub(self.vec, state_to_subtract.vec),
               !.quat = QMul(QInverse(state_to_subtract.quat), self.quat)]

setQuatEulerAngles(self, eulers) ==
  [self EXCEPT !.quat =
     QMul(QMul(AngleAxisQuat(<<0, 0, eulers[3]>>),
               AngleAxisQuat(<<0, eulers[2], 0>>)),
          AngleAxisQuat(<<eulers[1], 0, 0>>))]

getPose(self) ==
  [rotation_rate |-> angularVelocity(self),
   vel |-> velocity(self),
   pos |-> position(self),
   accel |-> acceleration(self),
   orientation |-> quaternionToBotDouble(self.quat),
   utime |-> self.utime]

getBotTrans(self) ==
  [trans_vec |-> position(self),
   rot_quat |-> quaternionToBotDouble(self.quat)]

\* mutant: the loop stops one element early
hasNan_stopEarly(self) == \E ii \in 0..(Rows(self.vec) - 2) : isnan(self.vec[ii])

hasNan(self) == \E ii \in 0..(Rows(self.vec) - 1) : isnan(self.vec[ii])

\* mutant: the length is not checked
VecCtorAssert_off(arg_vec) == TRUE

\* assert(arg_vec.rows()==basic_num_states)
VecCtorAssert(arg_vec) == Rows(arg_vec) = basic_num_states

RigidBodyStateVec(arg_vec) ==
  chiToQuat([vec |-> arg_vec, quat |-> QIdentity, utime |-> 0])

RigidBodyStateVecQuat(arg_vec, arg_quat) ==
  [vec |-> arg_vec, quat |-> arg_quat, utime |-> 0]

\* mutant: velocity and angular velocity are taken from each other's field
RigidBodyStatePose_swapped(pose_in) ==
  LET v0 == ZeroVec(basic_num_states)
      v1 == SetBlock3(v0, velocity_ind, pose_in.rotation_rate)
      v2 == SetBlock3(v1, angular_velocity_ind, pose_in.vel)
      v3 == SetBlock3(v2, position_ind, pose_in.pos)
      v4 == SetBlock3(v3, acceleration_ind, pose_in.accel)
      v5 == SetBlock3(v4, chi_ind, Zero3)
  IN [vec |-> v5,
      quat |-> botDoubleToQuaternion(pose_in.orientation),
      utime |-> pose_in.utime]

RigidBodyStatePose(pose_in) ==
  LET v0 == ZeroVec(basic_num_states)
      v1 == SetBlock3(v0, velocity_ind, pose_in.vel)
      v2 == SetBlock3(v1, angular_velocity_ind, pose_in.rotation_rate)
      v3 == SetBlock3(v2, position_ind, pose_in.pos)
      v4 == SetBlock3(v3, acceleration_ind, pose_in.accel)
      v5 == SetBlock3(v4, chi_ind, Zero3)
  IN [vec |-> v5,
      quat |-> botDoubleToQuaternion(pose_in.orientation),
      utime |-> pose_in.utime]

\* ------------------------------------------------------------------ inputs
MkVec(av, vl, ch, ps, ac) ==
  [i \in 0..(basic_num_states - 1) |->
     IF i < velocity_ind THEN av[i - angular_velocity_ind + 1]
     ELSE IF i < chi_ind THEN vl[i - velocity_ind + 1]
     ELSE IF i < position_ind THEN ch[i - chi_ind + 1]
     ELSE IF i < acceleration_ind THEN ps[i - position_ind + 1]
     ELSE ac[i - acceleration_ind + 1]]

\* 3-vectors written through the accessors: below the tolerance, above it,
\* and with a NaN
Vec3In == { <<1, 0, 0>>, <<0, 2, 1>>, <<NaN, 0, -3>> }

\* Euler angles (roll, pitch, yaw)
EulersIn == { <<0, 0, 0>>, <<1, 0, 2>>, <<0, 3, 0>> }

\* raw vectors of the right length: chi zero, chi at the tolerance, chi above it
RawVecZeroChi == MkVec(<<1, 0, 0>>, <<0, 2, 1>>, Zero3, <<3, 0, 0>>, <<0, 0, -1>>)

RawVecChiAtTol == MkVec(Zero3, <<0, 0, 1>>, <<0, 2, 0>>, Zero3, <<NaN, 0, 0>>)

RawVecChiAboveTol == MkVec(<<0, -2, 0>>, Zero3, <<2, 0, -1>>, <<0, 1, 0>>, Zero3)

RawVecIn == { RawVecZeroChi, RawVecChiAtTol, RawVecChiAboveTol }

\* raw vectors of a wrong length
BadVecIn == { ZeroVec(basic_num_states - 1), ZeroVec(basic_num_states + 1) }

StateDims == { basic_num_states - 1, basic_num_states, basic_num_states + 1 }

QuatIn == { QIdentity, AngleAxisQuat(<<3, 0, 0>>),
            QMul(AngleAxisQuat(<<0, 0, 2>>), AngleAxisQuat(<<0, 1, 0>>)) }

PoseIn ==
  { [rotation_rate |-> <<0, 1, 0>>, vel |-> <<2, 0, 0>>, pos |-> <<0, 0, 3>>,
     accel |-> <<-1, 0, 0>>, utime |-> 7,
     orientation |-> quaternionToBotDouble(AngleAxisQuat(<<0, 2, 1>>))],
    [rotation_rate |-> Zero3, vel |-> <<NaN, 0, 0>>, pos |-> Zero3,
     accel |-> <<0, 3, 0>>, utime |-> 0,
     orientation |-> quaternionToBotDouble(QIdentity)] }

PoseZero ==
  [rotation_rate |-> Zero3, vel |-> Zero3, pos |-> Zero3, accel |-> Zero3,
   utime |-> 0, orientation |-> quaternionToBotDouble(QIdentity)]

TransZero == [trans_vec |-> Zero3, rot_quat |-> quaternionToBotDouble(QIdentity)]

\* the states passed to addState and subtractState
Others ==
  { RigidBodyStateVecQuat(RawVecZeroChi, AngleAxisQuat(<<3, 0, 0>>)),
    RigidBodyStateVecQuat(RawVecChiAtTol, QIdentity),
    RigidBodyStateVecQuat(RawVecChiAboveTol, AngleAxisQuat(<<3, 0, 0>>)),
    RigidBodyStateDim(basic_num_states + 1) }
  \cup { RigidBodyStatePose(p) : p \in {x \in PoseIn : x.utime = 7} }

NoArg == [other |-> RigidBodyStateDim(basic_num_states), v |-> Zero3, i |-> 0, x |-> 0, f |-> ""]

\* ------------------------------------------------------------------- state
VARIABLES
  s,        \* the RigidBodyState object the operations are called on
  b,        \* the object last passed by const reference
  aborted,  \* an assertion failed
  op, pre, arg,     \* the last operation, the object before it, its arguments
  op2, pre2, arg2,  \* the same for the operation before the last
  ret,      \* the last value returned by hasNan
  pose,     \* the caller's rigid_body_pose_t
  trans,    \* the caller's BotTrans
  n         \* number of operations called

vars == <<s, b, aborted, op, pre, arg, op2, pre2, arg2, ret, pose, trans, n>>

Constructed(obj, ok, name, a, p) ==
  /\ s = obj
  /\ aborted = ~ok
  /\ op = name
  /\ arg = a
  /\ pre = obj
  /\ op2 = "none"
  /\ pre2 = obj
  /\ arg2 = NoArg
  /\ b = NoArg.other
  /\ ret = FALSE
  /\ pose = p
  /\ trans = TransZero
  /\ n = 0

NewDim ==
  \E d \in StateDims :
    Constructed(RigidBodyStateDim(d), TRUE, "ctorDim", [NoArg EXCEPT !.i = d], PoseZero)

NewVec ==
  \E v \in RawVecIn \cup BadVecIn :
    IF VecCtorAssert(v)
      THEN Constructed(RigidBodyStateVec(v), TRUE, "ctorVec",
                       [NoArg EXCEPT !.i = Rows(v)], PoseZero)
      ELSE Constructed([vec |-> v, quat |-> QIdentity, utime |-> 0], FALSE, "ctorVec",
                       [NoArg EXCEPT !.i = Rows(v)], PoseZero)

NewVecQuat ==
  \E v \in RawVecIn \cup BadVecIn, q \in QuatIn :
    Constructed(RigidBodyStateVecQuat(v, q), VecCtorAssert(v),
                "ctorVecQuat", [NoArg EXCEPT !.i = Rows(v)], PoseZero)

NewPose ==
  \E p \in PoseIn :
    Constructed(RigidBodyStatePose(p), TRUE, "ctorPose", NoArg, p)

Init == NewDim \/ NewVec \/ NewVecQuat \/ NewPose

\* one call of a member function: ok is the conjunction of the assertions the
\* call evaluates, post the object after the call
Call(name, a, ok, post) ==
  /\ ~aborted
  /\ n < MaxOps
  /\ n' = n + 1
  /\ op' = name /\ pre' = s /\ arg' = a
  /\ op2' = op /\ pre2' = pre /\ arg2' = arg
  /\ aborted' = ~ok
  /\ s' = IF ok THEN post ELSE s

CallChiToQuat ==
  /\ Call("chiToQuat", NoArg, BlockInRange(s.vec, chi_ind), chiToQuat(s))
  /\ UNCHANGED <<b, ret, pose, trans>>

CallQuatToChi ==
  /\ subtractQuatsDefined(s.quat, QIdentity)
  /\ Call("quatToChi", NoArg, BlockInRange(s.vec, chi_ind), quatToChi(s))
  /\ UNCHANGED <<b, ret, pose, trans>>

CallAddState ==
  \E o \in Others :
    /\ Call("addState", [NoArg EXCEPT !.other = o],
            Rows(s.vec) = Rows(o.vec) /\ BlockInRange(s.vec, chi_ind),
            addState(s, o))
    /\ b' = o
    /\ UNCHANGED <<ret, pose, trans>>

CallSubtractState ==
  \E o \in Others :
    /\ Call("subtractState", [NoArg EXCEPT !.other = o],
            Rows(s.vec) = Rows(o.vec), subtractState(s, o))
    /\ b' = o
    /\ UNCHANGED <<ret, pose, trans>>

CallSetQuatEulerAngles ==
  \E e \in EulersIn :
    /\ Call("setQuatEulerAngles", [NoArg EXCEPT !.v = e], TRUE, setQuatEulerAngles(s, e))
    /\ UNCHANGED <<b, ret, pose, trans>>

CallGetPose ==
  /\ Call("getPose", NoArg, BlockInRange(s.vec, acceleration_ind), s)
  /\ pose' = IF BlockInRange(s.vec, acceleration_ind) THEN getPose(s) ELSE pose
  /\ UNCHANGED <<b, ret, trans>>

CallGetBotTrans ==
  /\ Call("getBotTrans", NoArg, BlockInRange(s.vec, position_ind), s)
  /\ trans' = IF BlockInRange(s.vec, position_ind) THEN getBotTrans(s) ELSE trans
  /\ UNCHANGED <<b, ret, pose>>

CallHasNan ==
  /\ Call("hasNan", NoArg, TRUE, s)
  /\ ret' = hasNan(s)
  /\ UNCHANGED <<b, pose, trans>>

\* s = RigidBodyState(&pose)
CallNewPose ==
  /\ Call("ctorPose", NoArg, TRUE, RigidBodyStatePose(pose))
  /\ UNCHANGED <<b, ret, pose, trans>>

\* s.velocity() = x and the like
WriteAccessor ==
  \E f \in Accessors, x \in Vec3In :
    /\ Call("write", [NoArg EXCEPT !.v = x, !.f = f],
            BlockInRange(s.vec, AccessorInd(f)), WriteBlock(s, f, x))
    /\ UNCHANGED <<b, ret, pose, trans>>

\* s.vec(i) = x and s.utime = t through the public data members
WriteMember ==
  \/ \E x \in {1, NaN} :
       LET i == Rows(s.vec) - 1
       IN /\ Call("writeVec", [NoArg EXCEPT !.i = i, !.x = x], TRUE,
                  [s EXCEPT !.vec[i] = x])
          /\ UNCHANGED <<b, ret, pose, trans>>
  \/ /\ Call("writeUtime", [NoArg EXCEPT !.i = 5], TRUE, [s EXCEPT !.utime = 5])
     /\ UNCHANGED <<b, ret, pose, trans>>

Next ==
  \/ CallChiToQuat
  \/ CallQuatToChi
  \/ CallAddState
  \/ CallSubtractState
  \/ CallSetQuatEulerAngles
  \/ CallGetPose
  \/ CallGetBotTrans
  \/ CallHasNan
  \/ CallNewPose
  \/ WriteAccessor
  \/ WriteMember

Spec == Init /\ [][Next]_vars

\* ------------------------------------------------------------------ claims
Done(name) == op = name /\ ~aborted

NonChi == {i \in 0..(basic_num_states - 1) : i < 6 \/ i > 8}

SumSq(c) == c[1] * c[1] + c[2] * c[2] + c[3] * c[3]

AllFinite(c) == \A k \in 1..3 : IsFinite(c[k])

\* |c| < pi, in scalar units of 5e-7: 6283185 is pi / 5e-7 rounded down
NormBelowPi(c) == AllFinite(c) /\ SumSq(c) \div 6283185 < 6283185

\* C1 (as stated): the chi slot (elements 6..8) is the zero vector before and
\* after every public operation other than chiToQuat.
C1_ChiAlwaysZero ==
  (~aborted /\ op # "chiToQuat" /\ Rows(s.vec) >= 9) => <<s.vec[6], s.vec[7], s.vec[8]>> = Zero3

\* C1 (amended): chi is zero after the state_dim constructor and after
\* construction from a pose record; after the single-vector constructor,
\* chiToQuat and addState it is zero, or a value whose norm is not greater
\* than 1e-6 (a NaN norm included) that the fold left in place.
C1_ChiAfterFold ==
  /\ (Done("ctorDim") /\ Rows(s.vec) >= 9) => <<s.vec[6], s.vec[7], s.vec[8]>> = Zero3
  /\ Done("ctorPose") => <<s.vec[6], s.vec[7], s.vec[8]>> = Zero3
  /\ (Done("ctorVec") \/ Done("chiToQuat") \/ Done("addState")) =>
       LET c == <<s.vec[6], s.vec[7], s.vec[8]>>
       IN \/ c = Zero3
          \/ \E k \in 1..3 : isnan(c[k])
          \/ (AllFinite(c) /\ SumSq(c) <= Tol * Tol)

C1_Witness ==
  /\ Done("addState")
  /\ <<pre.vec[6], pre.vec[7], pre.vec[8]>> # Zero3
  /\ <<arg.other.vec[6], arg.other.vec[7], arg.other.vec[8]>> # Zero3
  /\ <<s.vec[6], s.vec[7], s.vec[8]>> = Zero3

\* the vector after a += b, and whether its chi is folded by chiToQuat
SumVec(a, o) == [i \in DOMAIN a.vec |-> FAdd(a.vec[i], o.vec[i])]

SumChi(a, o) == <<FAdd(a.vec[6], o.vec[6]), FAdd(a.vec[7], o.vec[7]), FAdd(a.vec[8], o.vec[8])>>

Folds(c) ==
  /\ \A k \in 1..3 : ~isnan(c[k])
  /\ ((\E k \in 1..3 : IsInf(c[k])) \/ SumSq(c) > Tol * Tol)

AddSubtract == Done("subtractState") /\ op2 = "addState" /\ arg.other = arg2.other

C3_AddState ==
  Done("addState") =>
    LET o == arg.other
        sum == SumVec(pre, o)
        c == SumChi(pre, o)
    IN /\ s.vec = IF Folds(c)
                    THEN [i \in DOMAIN sum |-> IF i \in 6..8 THEN 0 ELSE sum[i]]
                    ELSE sum
       /\ s.quat = IF Folds(c)
                     THEN QMul(QMul(pre.quat, AngleAxisQuat(c)), o.quat)
                     ELSE QMul(pre.quat, o.quat)
       /\ s.utime = pre.utime
       /\ b = o

C3_Witness ==
  /\ Done("addState")
  /\ Folds(SumChi(pre, arg.other))
  /\ ~pre.quat.nan /\ pre.quat # QIdentity
  /\ arg.other.quat # QIdentity
  /\ QMul(pre.quat, arg.other.quat) # QMul(arg.other.quat, pre.quat)
  /\ pre.utime # arg.other.utime
  /\ ~s.quat.nan

\* C4: chiToQuat() with |chi| > 1e-6 multiplies the orientation on the right by
\* the rotation of angle |chi| about chi/|chi| and zeroes chi; with |chi| <= 1e-6
\* it changes neither; the other twelve elements and the timestamp never
\* change, and a second consecutive call changes nothing.
C4_ChiToQuat ==
  Done("chiToQuat") =>
    LET c == <<pre.vec[6], pre.vec[7], pre.vec[8]>>
    IN /\ Folds(c) =>
            /\ s.quat = QMul(pre.quat, AngleAxisQuat(c))
            /\ <<s.vec[6], s.vec[7], s.vec[8]>> = Zero3
       /\ (AllFinite(c) /\ SumSq(c) <= Tol * Tol) =>
            /\ s.quat = pre.quat
            /\ <<s.vec[6], s.vec[7], s.vec[8]>> = c
       /\ \A i \in DOMAIN s.vec \ (6..8) : s.vec[i] = pre.vec[i]
       /\ DOMAIN s.vec = DOMAIN pre.vec
       /\ s.utime = pre.utime
       /\ op2 = "chiToQuat" => s = pre

\* a fold, and a chi exactly at the tolerance left in place
C4_WitnessFold ==
  /\ Done("chiToQuat")
  /\ AllFinite(<<pre.vec[6], pre.vec[7], pre.vec[8]>>)
  /\ SumSq(<<pre.vec[6], pre.vec[7], pre.vec[8]>>) > Tol * Tol
  /\ pre.quat # QIdentity
  /\ s.quat # pre.quat

C4_Witness ==
  /\ Done("chiToQuat")
  /\ op2 = "chiToQuat"
  /\ pre2.quat # pre.quat
  /\ s = pre

\* C5: a.subtractState(b) subtracts b.vec from a.vec element-wise (chi
\* included, the resulting chi is not folded) and then sets the orientation to
\* b.orientation^-1 * orientation; b and a's timestamp are left as they were.
C5_SubtractState ==
  Done("subtractState") =>
    LET o == arg.other
    IN /\ s.vec = [i \in DOMAIN pre.vec |-> FSub(pre.vec[i], o.vec[i])]
       /\ s.quat = QMul(QInverse(o.quat), pre.quat)
       /\ s.utime = pre.utime
       /\ b = o

C5_Witness ==
  /\ Done("subtractState")
  /\ Folds(<<s.vec[6], s.vec[7], s.vec[8]>>)
  /\ ~pre.quat.nan
  /\ QMul(QInverse(arg.other.quat), pre.quat) # QMul(pre.quat, QInverse(arg.other.quat))
  /\ pre.utime # arg.other.utime

\* C6: getPose followed by construction from the exported record reproduces
\* velocity, angular velocity, position, acceleration, timestamp and
\* orientation; the chi of the new state is zero whatever the chi of the old.
C6_PoseRoundTrip ==
  (Done("ctorPose") /\ op2 = "getPose") =>
    /\ \A i \in NonChi : s.vec[i] = pre2.vec[i]
    /\ Block3(s.vec, 3) = Block3(pre2.vec, 3)
    /\ Block3(s.vec, 0) = Block3(pre2.vec, 0)
    /\ Block3(s.vec, 9) = Block3(pre2.vec, 9)
    /\ Block3(s.vec, 12) = Block3(pre2.vec, 12)
    /\ s.utime = pre2.utime
    /\ s.quat = pre2.quat
    /\ <<s.vec[6], s.vec[7], s.vec[8]>> = Zero3
    /\ Rows(s.vec) = 15

C6_Witness ==
  /\ Done("ctorPose") /\ op2 = "getPose"
  /\ <<pre2.vec[6], pre2.vec[7], pre2.vec[8]>> # Zero3
  /\ pre2.quat # QIdentity
  /\ Block3(pre2.vec, 3) # Zero3
  /\ Block3(pre2.vec, 0) # Block3(pre2.vec, 3)
  /\ s.quat = pre2.quat

C8_HasNanFifteen ==
  Done("hasNan") =>
    (ret <=> \E i \in 0..14 : i \in DOMAIN s.vec /\ isnan(s.vec[i]))

\* C8 (amended): hasNan() is true iff one of the vec.rows() elements of the
\* state vector is NaN (state_dim elements after RigidBodyState(state_dim), 15
\* after every other constructor); it is false for a freshly zero-initialized
\* state, does not look at the quaternion and does not modify the state.
C8_HasNanAllRows ==
  Done("hasNan") =>
    /\ ret <=> \E i \in DOMAIN s.vec : isnan(s.vec[i])
    /\ op2 = "ctorDim" => ~ret
    /\ s = pre

C8_Witness ==
  /\ Done("hasNan")
  /\ Rows(s.vec) = 16
  /\ isnan(s.vec[15])
  /\ \A i \in 0..14 : ~isnan(s.vec[i])
  /\ ret

C8_WitnessQuat == Done("hasNan") /\ s.quat.nan /\ ~ret

\* C9 (as stated): a raw vector whose length is not 15 makes the vector
\* constructors fail their precondition, and no constructor produces a state
\* whose vector length differs from 15.
C9_LengthAlwaysFifteen ==
  /\ (op \in {"ctorVec", "ctorVecQuat"} /\ arg.i # 15) => aborted
  /\ ~aborted => Rows(s.vec) = 15

\* C9 (amended): with assertions enabled, a raw vector whose length is not 15
\* makes both vector constructors fail their assertion; the vector
\* constructors otherwise, and the pose-record constructor, produce a vector
\* of length 15, and RigidBodyState(state_dim) produces one of length state_dim.
C9_ConstructorLengths ==
  /\ op \in {"ctorVec", "ctorVecQuat"} => (aborted <=> arg.i # 15)
  /\ (Done("ctorVec") \/ Done("ctorVecQuat") \/ Done("ctorPose")) => Rows(s.vec) = 15
  /\ Done("ctorDim") => Rows(s.vec) = arg.i

C9_Witness == op = "ctorVecQuat" /\ arg.i = 16 /\ aborted

C9_WitnessDim == Done("ctorDim") /\ Rows(s.vec) = 16

\* C10: the accessors angularVelocity, velocity, chi, position, acceleration
\* are views of elements 0..2, 3..5, 6..8, 9..11, 12..14: a write through one
\* changes exactly its three elements, leaves the other elements, the
\* orientation and the timestamp alone, and is read back through the same
\* accessor.
ViewOffset(f) ==
  CASE f = "angularVelocity" -> 0
    [] f = "velocity" -> 3
    [] f = "chi" -> 6
    [] f = "position" -> 9
    [] f = "acceleration" -> 12

C10_AccessorViews ==
  Done("write") =>
    LET lo == ViewOffset(arg.f)
    IN /\ DOMAIN s.vec = DOMAIN pre.vec
       /\ \A i \in DOMAIN s.vec :
            s.vec[i] = IF i \in lo..(lo + 2) THEN arg.v[i - lo + 1] ELSE pre.vec[i]
       /\ s.quat = pre.quat
       /\ s.utime = pre.utime
       /\ ReadBlock(s, arg.f) = arg.v
       /\ (arg.f = "velocity" => velocity(s) = arg.v)
       /\ (arg.f = "angularVelocity" => angularVelocity(s) = arg.v)
       /\ (arg.f = "chi" => chi(s) = arg.v)
       /\ (arg.f = "position" => position(s) = arg.v)
       /\ (arg.f = "acceleration" => acceleration(s) = arg.v)

C10_Witness ==
  /\ Done("write") /\ op2 = "write"
  /\ arg.f = "position" /\ arg2.f = "chi"
  /\ arg.v # arg2.v
  /\ chi(s) = arg2.v /\ position(s) = arg.v

====
